---------------------------- MODULE Spec2Model ----------------------------
(***************************************************************************)
(* A model of praxis/utils/helpers.py: the soil-grid query loop            *)
(* (get_all_soilgrid_for_points), the grid generator                       *)
(* (polygon_binning_to_points) and the surface interpolator                *)
(* (interpolate_point_measures).                                           *)
(*                                                                         *)
(* Each function is one sequential call, modelled by its own               *)
(* specification (SpecGrid, SpecInterp, SpecSoil) over a program counter.  *)
(* Lengths are whole kilometres and geographic coordinates whole degrees   *)
(* (thousandths of a degree on the way back), so that all arithmetic is    *)
(* exact integer arithmetic.                                               *)
(***************************************************************************)
EXTENDS Integers, Sequences, FiniteSets, TLC

VARIABLES
    pc,                \* position of the running call
    \* ---- polygon_binning_to_points
    gdf,               \* the input polygon (vertices in degrees) and its crs
    resolution_m,      \* the requested resolution
    gdf_target_3857,   \* the polygon reprojected to EPSG:3857
    bbox,              \* [minx, miny, maxx, maxy] of the projected polygon
    x, y,              \* the loop variables
    grid_points,       \* the points kept so far
    grid_geopd,        \* the returned frame
    \* ---- interpolate_point_measures
    pts,               \* the input frame `gdf`: crs, point rows, columns
    delaunay,          \* the triangulation Qhull builds for the input points
    selected_measures, \* the requested columns, in order
    total_bounds,      \* gdf.total_bounds
    mi,                \* index of the measure the loop is at
    interpolated_data, \* measure -> interpolated column
    interp_gpd,        \* the returned frame
    err,               \* the exception that ended the call, or "none"
    \* ---- get_all_soilgrid_for_points
    points,            \* the points to query
    qi,                \* index of the point the loop is at
    response,          \* the response being handled
    received,          \* every response received so far, in order
    api_responses      \* the bodies kept so far

gridVars   == <<gdf, resolution_m, gdf_target_3857, bbox, x, y, grid_points, grid_geopd>>
interpVars == <<pts, delaunay, selected_measures, total_bounds, mi,
                interpolated_data, interp_gpd, err>>
soilVars   == <<points, qi, response, received, api_responses>>
vars       == <<pc, gridVars, interpVars, soilVars>>

\* ------------------------------------------------------------------------
\* Bounds of the model
\* ------------------------------------------------------------------------
\* polygon vertices lie on whole degrees 0..MaxDeg of longitude and latitude
MaxDeg == 2
\* magnitude beyond which adding the resolution to a coordinate is absorbed
\* (a float64 sum x + r returns x once |x| is large enough)
FloatRange == 1000
\* the longest series of points queried
MaxQueries == 3
\* the most rows an input frame of measured points has
MaxPoints == 4

\* ------------------------------------------------------------------------
\* Geometry helpers (shapely / pyproj, as the code uses them)
\* ------------------------------------------------------------------------
Min(a, b) == IF a < b THEN a ELSE b
Max(a, b) == IF a > b THEN a ELSE b

\* EPSG:4326 -> EPSG:3857 at whole degrees, to the kilometre
\* (x = R*lon, y = R*ln tan(pi/4 + lat/2), R = 6378.137 km)
MercX == <<0, 111, 223, 334, 445>>
MercY == <<0, 111, 223, 334, 446>>

ToMercator(p) == <<MercX[p[1] + 1], MercY[p[2] + 1]>>

\* the inverse of one axis, in thousandths of a degree, linear between the
\* tabulated degrees; coordinates below the table's origin mirror it
RECURSIVE InvAxis(_, _, _)
InvAxis(tab, v, k) ==
    IF k = Len(tab) - 1 \/ v <= tab[k + 1]
    THEN (k - 1) * 1000 + ((v - tab[k]) * 1000) \div (tab[k + 1] - tab[k])
    ELSE InvAxis(tab, v, k + 1)

FromMercator(p) ==
    <<IF p[1] >= 0 THEN InvAxis(MercX, p[1], 1) ELSE -InvAxis(MercX, -p[1], 1),
      IF p[2] >= 0 THEN InvAxis(MercY, p[2], 1) ELSE -InvAxis(MercY, -p[2], 1)>>

\* twice the signed area of triangle a b c
Orient(a, b, c) ==
    (b[1] - a[1]) * (c[2] - a[2]) - (b[2] - a[2]) * (c[1] - a[1])

OnSegment(a, b, p) ==
    /\ Orient(a, b, p) = 0
    /\ Min(a[1], b[1]) <= p[1] /\ p[1] <= Max(a[1], b[1])
    /\ Min(a[2], b[2]) <= p[2] /\ p[2] <= Max(a[2], b[2])

Edges(poly) ==
    { <<poly[i], poly[(i % Len(poly)) + 1]>> : i \in 1..Len(poly) }

\* the edge a-b crosses the horizontal ray from p towards +x
Crosses(a, b, p) ==
    /\ (a[2] > p[2]) # (b[2] > p[2])
    /\ IF b[2] > a[2]
       THEN (p[1] - a[1]) * (b[2] - a[2]) < (p[2] - a[2]) * (b[1] - a[1])
       ELSE (p[1] - a[1]) * (b[2] - a[2]) > (p[2] - a[2]) * (b[1] - a[1])

\* shapely's polygon.contains(point): the point is in the polygon's
\* interior (a point on the boundary is not contained)
Contains(poly, p) ==
    /\ \A e \in Edges(poly) : ~OnSegment(e[1], e[2], p)
    /\ Cardinality({e \in Edges(poly) : Crosses(e[1], e[2], p)}) % 2 = 1

\* geometry.bounds
Bounds(poly) ==
    LET xs == {poly[i][1] : i \in 1..Len(poly)}
        ys == {poly[i][2] : i \in 1..Len(poly)}
    IN  [minx |-> CHOOSE v \in xs : \A w \in xs : v <= w,
         miny |-> CHOOSE v \in ys : \A w \in ys : v <= w,
         maxx |-> CHOOSE v \in xs : \A w \in xs : v >= w,
         maxy |-> CHOOSE v \in ys : \A w \in ys : v >= w]

\* ------------------------------------------------------------------------
\* polygon_binning_to_points
\* ------------------------------------------------------------------------
NoBox == [minx |-> 0, miny |-> 0, maxx |-> 0, maxy |-> 0]
NoFrame == [crs |-> "none", geometry |-> <<>>]

DegNode(k) == <<k \div (MaxDeg + 1), k % (MaxDeg + 1)>>

\* every triangle with vertices on the degree grid and a non-zero area
Triangles ==
    LET n == (MaxDeg + 1) * (MaxDeg + 1)
    IN  { <<DegNode(a), DegNode(b), DegNode(c)>> :
            <<a, b, c>> \in { t \in (0..(n - 1)) \X (0..(n - 1)) \X (0..(n - 1)) :
                /\ t[1] < t[2] /\ t[2] < t[3]
                /\ Orient(DegNode(t[1]), DegNode(t[2]), DegNode(t[3])) # 0 } }

\* a square, a unit square and a concave quadrilateral
Quadrilaterals ==
    { <<(<<0, 0>>), (<<2, 0>>), (<<2, 2>>), (<<0, 2>>)>>,
      <<(<<0, 0>>), (<<1, 0>>), (<<1, 1>>), (<<0, 1>>)>>,
      <<(<<0, 0>>), (<<2, 1>>), (<<0, 2>>), (<<1, 1>>)>> }

Polygons == Triangles \cup Quadrilaterals

\* resolutions: negative, zero, finer than the box, about the box, coarser
\* than any box diagonal
Resolutions == {-250, 0, 40, 60, 111, 250, 700}

\* x += resolution_m: a float64 sum, absorbed beyond FloatRange
MutAdvanceByOne(v, r) == v + 1
Advance(v, r) ==
    IF v + r < -FloatRange \/ v + r > FloatRange THEN v ELSE v + r

\* the loop conditions `x < maxx`, `y < maxy`
InRange(v, hi) == v < hi

\* `y = miny`: where the inner loop starts
MutInnerStartX(b) == b.minx
InnerStart(b) == b.miny

\* the test that keeps a node: the projected polygon contains it
MutKeepInBox(poly, p) ==
    LET b == Bounds(poly)
    IN  b.minx <= p[1] /\ p[1] <= b.maxx /\ b.miny <= p[2] /\ p[2] <= b.maxy
Keep(poly, p) == Contains(poly, p)

IdleInterp ==
    /\ pts = [crs |-> "none", xy |-> <<>>, cols |-> <<>>]
    /\ delaunay = {}
    /\ selected_measures = <<>>
    /\ total_bounds = <<>>
    /\ mi = 0
    /\ interpolated_data = <<>>
    /\ interp_gpd = <<>>
    /\ err = "none"

IdleSoil ==
    /\ points = <<>>
    /\ qi = 0
    /\ response = <<>>
    /\ received = <<>>
    /\ api_responses = <<>>

IdleGrid ==
    /\ gdf = NoFrame
    /\ resolution_m = 0
    /\ gdf_target_3857 = <<>>
    /\ bbox = NoBox
    /\ x = 0
    /\ y = 0
    /\ grid_points = <<>>
    /\ grid_geopd = NoFrame

InitGrid ==
    /\ pc = "start"
    /\ gdf \in [crs : {"EPSG:4326"}, geometry : Polygons]
    /\ resolution_m \in Resolutions
    /\ gdf_target_3857 = <<>>
    /\ bbox = NoBox
    /\ x = 0
    /\ y = 0
    /\ grid_points = <<>>
    /\ grid_geopd = NoFrame
    /\ IdleInterp
    /\ IdleSoil

\* lines 99-113: reproject, take the bounds, start the outer loop
GridStart ==
    /\ pc = "start"
    /\ LET poly == [i \in 1..Len(gdf.geometry) |-> ToMercator(gdf.geometry[i])]
       IN  /\ gdf_target_3857' = poly
           /\ bbox' = Bounds(poly)
           /\ x' = Bounds(poly).minx
    /\ grid_points' = <<>>
    /\ pc' = "outer_test"
    /\ UNCHANGED <<gdf, resolution_m, y, grid_geopd, interpVars, soilVars>>

\* lines 114-115: `while x < maxx:` and `y = miny`
OuterTest ==
    /\ pc = "outer_test"
    /\ IF InRange(x, bbox.maxx)
       THEN y' = InnerStart(bbox) /\ pc' = "inner_test"
       ELSE y' = y /\ pc' = "reproject"
    /\ UNCHANGED <<gdf, resolution_m, gdf_target_3857, bbox, x, grid_points,
                   grid_geopd, interpVars, soilVars>>

\* line 116 `while y < maxy:`, and line 121 `x += resolution_m` on exit
InnerTest ==
    /\ pc = "inner_test"
    /\ IF InRange(y, bbox.maxy)
       THEN x' = x /\ pc' = "inner_body"
       ELSE x' = Advance(x, resolution_m) /\ pc' = "outer_test"
    /\ UNCHANGED <<gdf, resolution_m, gdf_target_3857, bbox, y, grid_points,
                   grid_geopd, interpVars, soilVars>>

\* lines 117-120: test the node, keep it if contained, `y += resolution_m`
InnerBody ==
    /\ pc = "inner_body"
    /\ grid_points' = IF Keep(gdf_target_3857, <<x, y>>)
                      THEN Append(grid_points, <<x, y>>)
                      ELSE grid_points
    /\ y' = Advance(y, resolution_m)
    /\ pc' = "inner_test"
    /\ UNCHANGED <<gdf, resolution_m, gdf_target_3857, bbox, x, grid_geopd,
                   interpVars, soilVars>>

\* lines 123-127: frame the kept points in 3857, reproject to 4326, return
GridReturn ==
    /\ pc = "reproject"
    /\ grid_geopd' = [crs |-> "EPSG:4326",
                      geometry |-> [i \in 1..Len(grid_points) |->
                                        FromMercator(grid_points[i])]]
    /\ pc' = "done"
    /\ UNCHANGED <<gdf, resolution_m, gdf_target_3857, bbox, x, y, grid_points,
                   interpVars, soilVars>>

NextGrid == GridStart \/ OuterTest \/ InnerTest \/ InnerBody \/ GridReturn

SpecGrid == InitGrid /\ [][NextGrid]_vars

\* the call is the only thread and always takes its next step
FairSpecGrid == SpecGrid /\ WF_vars(NextGrid)

\* ------------------------------------------------------------------------
\* Properties of polygon_binning_to_points
\* ------------------------------------------------------------------------
\* the nodes (minx + i*r, miny + j*r) below the maximum corner, x outermost
LatticeCount(lo, hi, r) == IF lo < hi THEN ((hi - lo - 1) \div r) + 1 ELSE 0

LatticeNodes(b, r) ==
    LET ni == LatticeCount(b.minx, b.maxx, r)
        nj == LatticeCount(b.miny, b.maxy, r)
    IN  [k \in 1..(ni * nj) |->
            <<b.minx + ((k - 1) \div nj) * r, b.miny + ((k - 1) % nj) * r>>]

ContainedNode(p) == Contains(gdf_target_3857, p)

NonEmptyBox == bbox.minx < bbox.maxx /\ bbox.miny < bbox.maxy

\* C1: with a non-empty bounding box the call terminates and returns for
\* every resolution, also a zero or negative one.
C1_Terminates == (pc = "outer_test" /\ NonEmptyBox) ~> (pc = "done")

\* C2: for r > 0 every point appended to the result is contained in the
\* projected polygon.
C2_KeptAreContained ==
    (pc # "start" /\ resolution_m > 0) =>
        \A i \in 1..Len(grid_points) : Contains(gdf_target_3857, grid_points[i])

C2_Witness ==
    /\ pc = "done" /\ resolution_m > 0
    /\ Len(grid_points) >= 2
    /\ \E k \in DOMAIN LatticeNodes(bbox, resolution_m) :
          ~Contains(gdf_target_3857, LatticeNodes(bbox, resolution_m)[k])

\* C3: for r > 0 the points kept are exactly the contained nodes of the
\* lattice with origin (minx, miny) and step r, x the outer and y the inner
\* loop; the result is a function of the polygon and r alone.
C3_ExactLattice ==
    (pc \in {"reproject", "done"} /\ resolution_m > 0) =>
        grid_points = SelectSeq(LatticeNodes(bbox, resolution_m), ContainedNode)

C3_Witness ==
    /\ pc = "done" /\ resolution_m > 0
    /\ \E i, j \in 1..Len(grid_points) :
          /\ grid_points[i][1] # grid_points[j][1]
          /\ grid_points[i][2] # grid_points[j][2]
    /\ Len(grid_points) < Len(LatticeNodes(bbox, resolution_m))

\* r exceeds the diagonal of the projected bounding box
BeyondDiagonal ==
    /\ resolution_m > 0
    /\ resolution_m * resolution_m >
         (bbox.maxx - bbox.minx) * (bbox.maxx - bbox.minx)
           + (bbox.maxy - bbox.miny) * (bbox.maxy - bbox.miny)

\* C9: with r greater than the bounding-box diagonal the call returns, the
\* only node tested is the minimum corner, and the result holds at most one
\* point.
C9_CoarseResolution ==
    (pc # "start" /\ BeyondDiagonal) =>
        /\ pc = "inner_body" => (x = bbox.minx /\ y = bbox.miny)
        /\ Len(grid_points) <= 1
        /\ pc = "done" => Len(grid_geopd.geometry) = Len(grid_points)

C9_Witness == pc = "done" /\ BeyondDiagonal /\ grid_geopd.crs = "EPSG:4326"

\* ------------------------------------------------------------------------
\* get_all_soilgrid_for_points
\* ------------------------------------------------------------------------
\* the points a series is drawn from (lon, lat)
SoilPoints == {<<5, 45>>, <<6, 45>>}

\* the status codes the remote side answers with
StatusCodes == {200, 204, 404}

NoResponse == [status_code |-> 0, lon |-> 0, lat |-> 0, json |-> "none"]

\* `response.status_code == 200`
MutAcceptAny2xx(status_code) == status_code \div 100 = 2
Accept(status_code) == status_code = 200

\* response.json() of a decodable body: the document for the queried point
Json(r) == [lon |-> r.lon, lat |-> r.lat]

InitSoil ==
    /\ pc = "soil_loop"
    /\ points \in UNION { [1..n -> SoilPoints] : n \in 0..MaxQueries }
    /\ qi = 1
    /\ response = NoResponse
    /\ received = <<>>
    /\ api_responses = <<>>
    /\ IdleGrid
    /\ IdleInterp

\* line 31: the loop is over
SoilReturn ==
    /\ pc = "soil_loop"
    /\ qi > Len(points)
    /\ pc' = "done"
    /\ UNCHANGED <<gridVars, interpVars, soilVars>>

\* lines 31-36: take the next point and send the GET request; the remote
\* side answers with some status and a body that decodes or does not
SoilRequest ==
    /\ pc = "soil_loop"
    /\ qi <= Len(points)
    /\ \E status_code \in StatusCodes, ok \in BOOLEAN :
          LET r == [status_code |-> status_code,
                    lon |-> points[qi][1], lat |-> points[qi][2],
                    json |-> IF ok THEN "document" ELSE "undecodable"]
          IN  /\ response' = r
              /\ received' = Append(received, r)
    /\ pc' = "soil_handle"
    /\ UNCHANGED <<gridVars, interpVars, points, qi, api_responses>>

\* line 36: requests.get raises (no connection, timeout): the call ends
SoilRequestFails ==
    /\ pc = "soil_loop"
    /\ qi <= Len(points)
    /\ pc' = "raised"
    /\ UNCHANGED <<gridVars, interpVars, soilVars>>

\* lines 38-44: keep the decoded body of an accepted response, report any
\* other status; response.json() raises on an undecodable body
SoilHandle ==
    /\ pc = "soil_handle"
    /\ IF Accept(response.status_code)
       THEN IF response.json = "document"
            THEN /\ api_responses' = Append(api_responses, Json(response))
                 /\ qi' = qi + 1
                 /\ pc' = "soil_loop"
            ELSE /\ pc' = "raised"
                 /\ UNCHANGED <<api_responses, qi>>
       ELSE /\ pc' = "soil_loop"
            /\ qi' = qi + 1
            /\ UNCHANGED api_responses
    /\ UNCHANGED <<gridVars, interpVars, points, response, received>>

NextSoil == SoilRequest \/ SoilRequestFails \/ SoilHandle \/ SoilReturn

SpecSoil == InitSoil /\ [][NextSoil]_vars

Is200(r) == r.status_code = 200

BodiesOf(rs) == [i \in 1..Len(rs) |-> [lon |-> rs[i].lon, lat |-> rs[i].lat]]

GridSteps == 500

Abs(a) == IF a < 0 THEN -a ELSE a

RECURSIVE Gcd(_, _)
Gcd(a, b) == IF b = 0 THEN a ELSE Gcd(b, a % b)

\* a float64 value: NaN, or the exact fraction num/den in lowest terms
NaN == [nan |-> TRUE, num |-> 0, den |-> 1]
Num(v) == [nan |-> FALSE, num |-> v, den |-> 1]
Frac(n, d) ==
    LET g == Gcd(Abs(n), Abs(d))
        sgn == IF d < 0 THEN -1 ELSE 1
    IN  [nan |-> FALSE, num |-> (sgn * n) \div g, den |-> (sgn * d) \div g]

\* the positions input points are drawn from
PointCoords == {0, 1, 2}
Positions == PointCoords \X PointCoords

Before(p, q) == p[1] < q[1] \/ (p[1] = q[1] /\ p[2] < q[2])

\* the rows of a frame: distinct positions, at most MaxPoints of them
RowsOf(S) ==
    [i \in 1..Cardinality(S) |->
        CHOOSE p \in S : Cardinality({q \in S : Before(q, p)}) = i - 1]

PointRows == { RowsOf(S) : S \in {T \in SUBSET Positions : Cardinality(T) <= MaxPoints} }

\* a column of measures: row i measured 10*i, possibly with the first or
\* the last reading missing
ColumnsA(n) ==
    { [i \in 1..n |-> IF i = k THEN NaN ELSE Num(10 * i)] : k \in {0, 1, n} }

\* a second column: a constant, possibly with the first reading missing
ColumnsB(n) ==
    { [i \in 1..n |-> IF i = k THEN NaN ELSE Num(5)] : k \in 0..Min(n, 1) }

Frames(xy) ==
    { [crs |-> "EPSG:4326", xy |-> xy, cols |-> [A |-> a]] : a \in ColumnsA(Len(xy)) }
    \cup
    { [crs |-> "EPSG:4326", xy |-> xy, cols |-> [A |-> a, B |-> b]] :
        a \in ColumnsA(Len(xy)), b \in ColumnsB(Len(xy)) }

\* the requests: "C" is a column no frame has, "B" one some frames lack
MeasureLists ==
    { <<>>, <<"A">>, <<"A", "B">>, <<"B", "A">>, <<"A", "C">>, <<"C", "A">> }

\* gdf.total_bounds: NaN on an empty frame
TotalBounds(xy) ==
    IF Len(xy) = 0
    THEN [nan |-> TRUE, xmin |-> 0, ymin |-> 0, xmax |-> 0, ymax |-> 0]
    ELSE LET b == Bounds(xy)
         IN  [nan |-> FALSE, xmin |-> b.minx, ymin |-> b.miny,
              xmax |-> b.maxx, ymax |-> b.maxy]

\* Coordinates of the lattice are held multiplied by GridSteps - 1, which
\* makes start + i * (stop - start) / (GridSteps - 1) a whole number.
Scaled(p) == <<(GridSteps - 1) * p[1], (GridSteps - 1) * p[2]>>

\* grid_x[i, j], grid_y[i, j]
Node(tb, i, j) ==
    <<(GridSteps - 1) * tb.xmin + i * (tb.xmax - tb.xmin),
      (GridSteps - 1) * tb.ymin + j * (tb.ymax - tb.ymin)>>

\* the lattice indices whose nodes the model inspects, per axis
SampleIdx == {0, 1, 249, 250, GridSteps - 1}
SampleNodes == SampleIdx \X SampleIdx

\* ---- scipy.spatial.Delaunay (Qhull, triangulated output)
Triples(n) ==
    { t \in (1..n) \X (1..n) \X (1..n) : t[1] < t[2] /\ t[2] < t[3] }

\* d lies strictly inside the circle through a, b, c
InCircle(a, b, c, d) ==
    LET ax == a[1] - d[1]  ay == a[2] - d[2]
        bx == b[1] - d[1]  by == b[2] - d[2]
        cx == c[1] - d[1]  cy == c[2] - d[2]
        det == (ax * ax + ay * ay) * (bx * cy - cx * by)
             - (bx * bx + by * by) * (ax * cy - cx * ay)
             + (cx * cx + cy * cy) * (ax * by - bx * ay)
    IN  det * Orient(a, b, c) > 0

DelaunayTriangles(xy) ==
    { t \in Triples(Len(xy)) :
        /\ Orient(xy[t[1]], xy[t[2]], xy[t[3]]) # 0
        /\ \A k \in 1..Len(xy) :
              k \notin {t[1], t[2], t[3]} =>
                  ~InCircle(xy[t[1]], xy[t[2]], xy[t[3]], xy[k]) }

\* the line through a, b has triangle u on the side away from c
Separates(xy, a, b, c, u) ==
    \A k \in 1..3 : Orient(xy[a], xy[b], xy[u[k]]) * Orient(xy[a], xy[b], xy[c]) <= 0

SeparatedBy(xy, t, u) ==
    \/ Separates(xy, t[1], t[2], t[3], u)
    \/ Separates(xy, t[2], t[3], t[1], u)
    \/ Separates(xy, t[3], t[1], t[2], u)

InteriorDisjoint(xy, t, u) == SeparatedBy(xy, t, u) \/ SeparatedBy(xy, u, t)

RECURSIVE Area2(_, _)
Area2(xy, S) ==
    IF S = {} THEN 0
    ELSE LET t == CHOOSE u \in S : TRUE
         IN  Abs(Orient(xy[t[1]], xy[t[2]], xy[t[3]])) + Area2(xy, S \ {t})

\* The triangulations Qhull may return: triangles with empty circumcircles
\* that do not overlap and cover the hull. Points on a common circle leave
\* a choice, which Qhull makes as a function of the points.
Triangulations(xy) ==
    LET T == DelaunayTriangles(xy)
        Cands == { S \in SUBSET T :
                     \A t \in S : \A u \in S : t = u \/ InteriorDisjoint(xy, t, u) }
    IN  { S \in Cands : \A R \in Cands : Area2(xy, R) <= Area2(xy, S) }

\* ---- scipy.interpolate.LinearNDInterpolator
\* the weight w is zero or has the sign of the triangle's area D
SameSign(w, D) == (D > 0 /\ w >= 0) \/ (D < 0 /\ w <= 0)

\* P (scaled) lies in the closed triangle t
InTriangle(xy, t, P) ==
    LET a == Scaled(xy[t[1]])  b == Scaled(xy[t[2]])  c == Scaled(xy[t[3]])
        D == Orient(a, b, c)
    IN  /\ SameSign(Orient(P, b, c), D)
        /\ SameSign(Orient(a, P, c), D)
        /\ SameSign(Orient(a, b, P), D)

\* barycentric interpolation in the simplex found for P; the fill value NaN
\* outside every simplex. The sum runs over all three vertices, so a NaN at
\* any of them makes the result NaN, also under a zero weight.
InterpAt(xy, values, tri, P) ==
    LET holding == { t \in tri : InTriangle(xy, t, P) }
    IN  IF holding = {} THEN NaN
        ELSE LET t == CHOOSE u \in holding : TRUE
                 a == Scaled(xy[t[1]])  b == Scaled(xy[t[2]])  c == Scaled(xy[t[3]])
                 va == values[t[1]]  vb == values[t[2]]  vc == values[t[3]]
             IN  IF va.nan \/ vb.nan \/ vc.nan THEN NaN
                 ELSE Frac(Orient(P, b, c) * va.num + Orient(a, P, c) * vb.num
                             + Orient(a, b, P) * vc.num,
                           Orient(a, b, c))

\* griddata(points, values, (grid_x, grid_y), method='linear'): raises on no
\* points (ValueError) and on points that span no triangle (QhullError)
Griddata(xy, values, tri, tb) ==
    IF Len(xy) = 0
    THEN [raises |-> "ValueError", column |-> <<>>]
    ELSE IF DelaunayTriangles(xy) = {}
    THEN [raises |-> "QhullError", column |-> <<>>]
    ELSE [raises |-> "none",
          column |-> [n \in SampleNodes |->
                         InterpAt(xy, values, tri, Node(tb, n[1], n[2]))]]

\* gdf[measure].values: KeyError when the frame has no such column
MutLookupDefaultNaN(frame, measure) ==
    IF measure \in DOMAIN frame.cols
    THEN [raises |-> "none", values |-> frame.cols[measure]]
    ELSE [raises |-> "none", values |-> [i \in 1..Len(frame.xy) |-> NaN]]
MutLookupDropna(frame, measure) ==
    IF measure \in DOMAIN frame.cols
    THEN [raises |-> "none",
          values |-> [i \in 1..Len(frame.xy) |->
                        IF \E c \in DOMAIN frame.cols : frame.cols[c][i].nan
                        THEN NaN ELSE frame.cols[measure][i]]]
    ELSE [raises |-> "KeyError", values |-> <<>>]
Lookup(frame, measure) ==
    IF measure \in DOMAIN frame.cols
    THEN [raises |-> "none", values |-> frame.cols[measure]]
    ELSE [raises |-> "KeyError", values |-> <<>>]

\* lines 153-154 for one measure
MeasureColumn(frame, measure, tri, tb) ==
    LET got == Lookup(frame, measure)
    IN  IF got.raises # "none"
        THEN [raises |-> got.raises, column |-> <<>>]
        ELSE Griddata(frame.xy, got.values, tri, tb)

\* row k of the flattened lattice is node (k div GridSteps, k mod GridSteps)
RowIndex(n) == n[1] * GridSteps + n[2]

\* lines 157-162: the frame returned, as its length, its columns and its
\* rows at the inspected nodes
Assemble(frame, data, tb) ==
    [crs |-> frame.crs,
     nrows |-> GridSteps * GridSteps,
     columns |-> DOMAIN data,
     rows |-> [k \in {RowIndex(n) : n \in SampleNodes} |->
                 LET n == <<k \div GridSteps, k % GridSteps>>
                 IN  [geometry |-> IF tb.nan THEN <<"nan", "nan">>
                                   ELSE Node(tb, n[1], n[2]),
                      values |-> [m \in DOMAIN data |-> data[m][n]]]]]

InitInterp ==
    /\ pc = "interp_start"
    /\ \E xy \in PointRows :
          \E tri \in Triangulations(xy) :
             /\ pts \in Frames(xy)
             /\ delaunay = tri
    /\ selected_measures \in MeasureLists
    /\ total_bounds = <<>>
    /\ mi = 0
    /\ interpolated_data = <<>>
    /\ interp_gpd = <<>>
    /\ err = "none"
    /\ IdleGrid
    /\ IdleSoil

\* lines 147-151: bounding box, lattice, the points array
InterpStart ==
    /\ pc = "interp_start"
    /\ total_bounds' = TotalBounds(pts.xy)
    /\ interpolated_data' = <<>>
    /\ mi' = 1
    /\ pc' = "measure_loop"
    /\ UNCHANGED <<pts, delaunay, selected_measures, interp_gpd, err,
                   gridVars, soilVars>>

\* lines 152-155: one turn of the loop over the requested measures
InterpMeasure ==
    /\ pc = "measure_loop"
    /\ mi <= Len(selected_measures)
    /\ LET measure == selected_measures[mi]
           got == MeasureColumn(pts, measure, delaunay, total_bounds)
       IN  IF got.raises # "none"
           THEN /\ err' = got.raises
                /\ pc' = "raised"
                /\ UNCHANGED <<interpolated_data, mi>>
           ELSE /\ interpolated_data' =
                      [m \in (DOMAIN interpolated_data) \cup {measure} |->
                          IF m = measure THEN got.column ELSE interpolated_data[m]]
                /\ mi' = mi + 1
                /\ UNCHANGED <<err, pc>>
    /\ UNCHANGED <<pts, delaunay, selected_measures, total_bounds, interp_gpd,
                   gridVars, soilVars>>

\* lines 157-164: assemble the frame and return it
InterpReturn ==
    /\ pc = "measure_loop"
    /\ mi > Len(selected_measures)
    /\ interp_gpd' = Assemble(pts, interpolated_data, total_bounds)
    /\ pc' = "done"
    /\ UNCHANGED <<pts, delaunay, selected_measures, total_bounds, mi,
                   interpolated_data, err, gridVars, soilVars>>

NextInterp == InterpStart \/ InterpMeasure \/ InterpReturn

SpecInterp == InitInterp /\ [][NextInterp]_vars

\* ------------------------------------------------------------------------
\* Properties of interpolate_point_measures
\* ------------------------------------------------------------------------
Returned == pc = "done"
Ended == pc \in {"done", "raised"}

Columns == DOMAIN pts.cols

RequestsAbsent ==
    \E i \in 1..Len(selected_measures) : selected_measures[i] \notin Columns

FirstAbsent ==
    CHOOSE i \in 1..Len(selected_measures) :
        /\ selected_measures[i] \notin Columns
        /\ \A k \in 1..(i - 1) : selected_measures[k] \in Columns

C5_EmptyInputFails ==
    (Ended /\ Len(pts.xy) = 0) => (pc = "raised" /\ err = "InsufficientDataError")

\* P (scaled) lies strictly outside the convex hull of the input points:
\* some line through two of them has every point on one side and P on the
\* other
OutsideHull(P) ==
    \E a, b \in 1..Len(pts.xy) :
        /\ a # b
        /\ \A k \in 1..Len(pts.xy) : Orient(pts.xy[a], pts.xy[b], pts.xy[k]) >= 0
        /\ Orient(Scaled(pts.xy[a]), Scaled(pts.xy[b]), P) < 0

ValueAt(m, n) == interp_gpd.rows[RowIndex(n)].values[m]

\* C6: every node strictly outside the convex hull of the input points
\* carries NaN for every requested attribute, and a node in the hull that
\* coincides with an input point carries that point's value.
C6_HullAndSamples ==
    Returned =>
        \A m \in interp_gpd.columns : \A n \in SampleNodes :
            LET P == Node(total_bounds, n[1], n[2])
            IN  /\ OutsideHull(P) => ValueAt(m, n).nan
                /\ \A k \in 1..Len(pts.xy) :
                      Scaled(pts.xy[k]) = P => ValueAt(m, n) = pts.cols[m][k]

\* C7: every non-empty input and every request returns one record per node
\* of the GridSteps x GridSteps lattice, from the minimum corner to the
\* maximum corner, each with its coordinate and a value per requested
\* attribute, in the input's reference frame.
C7_OneRecordPerNode ==
    (Ended /\ Len(pts.xy) > 0) =>
        /\ pc = "done"
        /\ interp_gpd.nrows = GridSteps * GridSteps
        /\ interp_gpd.rows[0].geometry =
              Scaled(<<total_bounds.xmin, total_bounds.ymin>>)
        /\ interp_gpd.rows[GridSteps * GridSteps - 1].geometry =
              Scaled(<<total_bounds.xmax, total_bounds.ymax>>)
        /\ interp_gpd.columns =
              {selected_measures[i] : i \in 1..Len(selected_measures)}
        /\ interp_gpd.crs = pts.crs

\* the readings another column may hold instead
OtherReadings(n) ==
    { [i \in 1..n |-> IF k = 0 \/ i = k THEN NaN ELSE Num(7)] : k \in {0, n, n + 1} }

\* the frames that differ from the input only in columns other than m
VariantsOf(frame, m) ==
    { [crs |-> frame.crs, xy |-> frame.xy, cols |-> c] :
        c \in { d \in [DOMAIN frame.cols -> OtherReadings(Len(frame.xy)) \cup {frame.cols[m]}] :
                  d[m] = frame.cols[m] } }

\* C8: the output column of an attribute depends on the coordinates and on
\* that attribute's values alone: a call on an input that differs only in
\* another attribute's values (NaN included) gives the same column.
C8_AttributesIndependent ==
    Returned =>
        \A m \in interp_gpd.columns :
            \A other \in VariantsOf(pts, m) :
                LET again == MeasureColumn(other, m, delaunay, total_bounds)
                IN  /\ again.raises = "none"
                    /\ \A n \in SampleNodes : again.column[n] = ValueAt(m, n)

C8_Witness ==
    /\ Returned
    /\ interp_gpd.columns = {"A", "B"}
    /\ \E i \in 1..Len(pts.xy) : pts.cols["B"][i].nan
    /\ \A i \in 1..Len(pts.xy) : ~pts.cols["A"][i].nan
    /\ \A n \in SampleNodes : ~OutsideHull(Node(total_bounds, n[1], n[2])) =>
          /\ ~ValueAt("A", n).nan
          /\ ValueAt("B", n).nan
    /\ Cardinality(delaunay) >= 2

=============================================================================
